---- MODULE Spec2Model ----
(***************************************************************************)
(* Callback bridging and resource lifecycle of the weechat-rs bindings:    *)
(* hooks.rs (command and fd hooks) and config.rs (config files, sections,  *)
(* options), run against a host that records every call made through the  *)
(* plugin function table.                                                  *)
(*                                                                         *)
(* heap     the Context Boxes, indexed by address (the n-th Box::new gets  *)
(*          address n; addresses are never reused)                         *)
(* host     the host's registrations, indexed by host handle, each with the *)
(*          number of trampoline invocations, the last return code, and    *)
(*          for an fd hook the (fd passed, object given to the callback)    *)
(*          pairs of its invocations                                       *)
(* handles  the live Resource Handles of the plugin, keyed by the address  *)
(*          of the Context Box they own                                    *)
(* todo     what is left of the destructor that is running: host calls and *)
(*          box frees, in the order the drop glue issues them              *)
(* hostLog  the registration and free calls the host has received, in call *)
(*          order, per owning Resource Handle (keyed like handles; the     *)
(*          calls for a config's sections and options are in the config's  *)
(*          log)                                                           *)
(* limit    the bounds of the run: registrations and invocations           *)
(* checkRcs the (verdict, return code) pairs seen at the check trampoline  *)
(* options  the live option wrappers (StringOption, BooleanOption, ...),    *)
(*          those the constructors returned and those a trampoline built   *)
(* table    the host's hdata table of the object that is read: for each    *)
(*          field its declared type tag and what its getter returns        *)
(* reads    the last typed hdata read: the host calls it made, in order,   *)
(*          and its result                                                 *)
(* nested   the last get_hdata made on a pointer a read returned: the      *)
(*          pointer, the table name, the host call and the result          *)
(***************************************************************************)
EXTENDS Integers, Sequences, FiniteSets, TLC

VARIABLES heap, host, handles, todo, hostLog, checkRcs, limit, options, table, reads, nested

vars == <<heap, host, handles, todo, hostLog, checkRcs, limit, options, table, reads, nested>>

(* Bounds of the model, for each specification: the registrations of a run *)
(* (Context Boxes allocated and config_new_section calls together) and its *)
(* trampoline invocations. Destructors are not counted: a handle can       *)
(* always be dropped.                                                      *)
MaxBoxes == 2
MaxInvocations == 1
(* Bounds of the trampolines applied to any Context Box: the largest count *)
(* a state slot starts with, and the invocations.                          *)
MaxCount == 1
TrampolineInvocations == 2
(* Bounds of the runs with option wrappers. *)
OptionRegs == 4
OptionInvocations == 1
(* Bound of the runs of the registration calls. *)
RegistrationRegs == 4
(* Bound of the runs of new_section on every ConfigSectionInfo. *)
SectionRegs == 2
(* Bound of the hdata reads: the largest value a host getter returns. *)
MaxRaw == 1
HookBoxes == 2
HookInvocations == 3
ConfigRegs == 4
BridgeRegs == 3
BridgeInvocations == 2

(* ptr::null_mut() *)
NULL == 0
(* a None function pointer in a callback slot *)
NullFn == "null"
(* Option<T> of a data argument: None is <<>>, Some(x) is <<x>> *)
None == <<>>
Some(x) == <<x>>
WEECHAT_RC_OK == "WEECHAT_RC_OK"

(* The section names of a run, in the order the caller first uses them. *)
SectionNames == {"a", "b", "c"}
NameOrder == <<"a", "b", "c">>
(* the descriptor of the watched object, and the numbers the host may pass *)
FdObjects == {3}
Fds == {3, 4}
(* the values the host proposes for an option: one the user's check        *)
(* callback accepts, one it rejects, one it panics on                      *)
OptionValues == {"ok", "bad", "panic"}
(* what the caller passes as value and default of a text option *)
OptionText == "text"
(* the plugin pointer every wrapper keeps *)
WeechatPtr == "weechat_ptr"

(* Option<T>::unwrap_or_default for the counter state the callbacks use. *)
unwrap_or_default(x) == IF x = None THEN 0 ELSE x[1]

(* The data arguments a caller passes: None, or a state whose count is 0. *)
DataArgs == {None, Some(0)}

Perms(S) ==
  {s \in [1..Cardinality(S) -> S] : \A i, j \in 1..Cardinality(S) : s[i] = s[j] => i = j}

(***************************************************************************)
(* The host side of the plugin ABI.                                        *)
(***************************************************************************)

(* The handle a registration call returns: null when the host refuses,     *)
(* otherwise the next fresh host handle.                                   *)
HostReturn(accept) == IF accept THEN Len(host) + 1 ELSE NULL

(* The host refuses a child whose parent handle is null or freed. *)
HostMayAccept(parent) == parent # NULL /\ host[parent].live

HostRegister(kind, parent, callbacks, pointers, ret) ==
  IF ret = NULL THEN host
  ELSE Append(host, [kind |-> kind, live |-> TRUE, parent |-> parent,
                     callbacks |-> callbacks, pointers |-> pointers,
                     invoked |-> 0, rc |-> "none", seen |-> {}])

(* unhook / config_free / config_section_free_options / config_section_free *)
(* on a handle: the parent's free takes the children with it, a null handle *)
(* is ignored.                                                              *)
HostFreeEffect(op, ptr) ==
  IF ptr = NULL THEN host
  ELSE [h \in 1..Len(host) |->
         LET r == host[h]
             dies ==
               CASE op = "unhook" -> h = ptr
                 [] op = "config_section_free_options" ->
                      r.kind = "option" /\ r.parent = ptr
                 [] op = "config_section_free" ->
                      h = ptr \/ (r.kind = "option" /\ r.parent = ptr)
                 [] op = "config_free" ->
                      \/ h = ptr
                      \/ (r.kind = "section" /\ r.parent = ptr)
                      \/ (r.kind = "option" /\ r.parent # NULL
                            /\ host[r.parent].parent = ptr)
                 [] OTHER -> FALSE
         IN IF dies THEN [r EXCEPT !.live = FALSE] ELSE r]

(* Trampoline invocations the host has made so far, over all registrations. *)
RECURSIVE InvokedUpTo(_)
InvokedUpTo(n) == IF n = 0 THEN 0 ELSE host[n].invoked + InvokedUpTo(n - 1)
TotalInvoked == InvokedUpTo(Len(host))

RECURSIVE CountOp(_, _)
(* The calls of one operation in a handle's log. *)
CountOp(log, op) ==
  IF log = <<>> THEN 0
  ELSE (IF Head(log).op = op THEN 1 ELSE 0) + CountOp(Tail(log), op)

RECURSIVE CountOpUpTo(_, _)
CountOpUpTo(n, op) ==
  IF n = 0 THEN 0 ELSE CountOp(hostLog[n], op) + CountOpUpTo(n - 1, op)

(* config_new_section calls made so far *)
SectionCalls == CountOpUpTo(Len(hostLog), "config_new_section")

(* Context Boxes allocated and sections requested. *)
Regs == Len(heap) + SectionCalls

(***************************************************************************)
(* hooks.rs                                                                *)
(***************************************************************************)

FdHookModes == {"Read", "Write", "ReadWrite"}

(* Variant of as_tuple: the two flags change places. *)
as_tuple_swapped(mode) ==
  LET read == CASE mode = "Read" -> 0 [] mode = "ReadWrite" -> 1 [] mode = "Write" -> 1
      write == CASE mode = "Read" -> 1 [] mode = "ReadWrite" -> 1 [] mode = "Write" -> 0
  IN <<read, write>>

as_tuple(mode) ==
  LET read == CASE mode = "Read" -> 1 [] mode = "ReadWrite" -> 1 [] mode = "Write" -> 0
      write == CASE mode = "Read" -> 0 [] mode = "ReadWrite" -> 1 [] mode = "Write" -> 1
  IN <<read, write>>

(* What the user's callback does with its state: it counts its calls. *)
UserCallback(count) == count + 1

(* Variant of HookDrop: the destructor forgets the unhook call. *)
HookDropNoUnhook(hook, owner) == <<>>

(* impl Drop for Hook: one unhook call on the host handle. *)
HookDrop(hook, owner) == <<[step |-> "unhook", ptr |-> hook.ptr, owner |-> owner]>>

BoxDrop(addr) == <<[step |-> "Box::drop", addr |-> addr]>>

(* Variant of CommandHookDrop: the fields declared in the other order. *)
CommandHookDropSwapped(hd) == BoxDrop(hd.hook_data) \o HookDrop(hd.hook, hd.hook_data)

(* Drop glue of CommandHook: the fields in declaration order, _hook and    *)
(* then _hook_data.                                                        *)
CommandHookDrop(hd) == HookDrop(hd.hook, hd.hook_data) \o BoxDrop(hd.hook_data)

(* Variant of FdHookDrop: the fields declared in the other order. *)
FdHookDropSwapped(hd) == BoxDrop(hd.hook_data) \o HookDrop(hd.hook, hd.hook_data)

(* Drop glue of FdHook: the fields in declaration order, _hook and then    *)
(* _hook_data.                                                             *)
FdHookDrop(hd) == HookDrop(hd.hook, hd.hook_data) \o BoxDrop(hd.hook_data)

(* Variant of c_hook_cb_command: the callback runs on a copy of the state. *)
c_hook_cb_command_copy(box) == [box |-> box, rc |-> WEECHAT_RC_OK]

(* hook_command::c_hook_cb: the callback runs on the box's callback_data. *)
c_hook_cb_command(box) ==
  [box |-> [box EXCEPT !.callback_data = UserCallback(@)], rc |-> WEECHAT_RC_OK]

(* Variant of c_hook_cb_fd: the callback is told the number the host       *)
(* passed instead of the object of the box.                                *)
c_hook_cb_fd_by_number(box, fd) ==
  [box |-> [box EXCEPT !.callback_data = UserCallback(@)],
   fd_object |-> fd, rc |-> WEECHAT_RC_OK]

(* hook_fd::c_hook_cb: the fd argument is not used. *)
c_hook_cb_fd(box, fd) ==
  [box |-> [box EXCEPT !.callback_data = UserCallback(@)],
   fd_object |-> box.fd_object, rc |-> WEECHAT_RC_OK]

(* hook_command handing the box to the host as the data pointer too. *)
hook_command_data_ref(callback_data, accept) ==
  /\ todo = <<>>
  /\ Regs < limit.regs
  /\ LET data == [kind |-> "CommandHookData", alloc |-> TRUE, frees |-> 0,
                  callback |-> TRUE,
                  callback_data |-> unwrap_or_default(callback_data)]
         data_ref == Len(heap) + 1
         hook_ptr == HostReturn(accept)
     IN /\ heap' = Append(heap, data)
        /\ host' = HostRegister("hook_command", NULL, <<"c_hook_cb">>, <<data_ref>>, hook_ptr)
        /\ hostLog' = Append(hostLog,
             << [op |-> "hook_command", callbacks |-> <<"c_hook_cb">>,
                 pointers |-> <<data_ref>>, datas |-> <<data_ref>>, ret |-> hook_ptr] >>)
        /\ handles' = handles @@
             (data_ref :> [type |-> "CommandHook", hook |-> [ptr |-> hook_ptr],
                           hook_data |-> data_ref])
  /\ UNCHANGED <<todo, checkRcs, limit, options, table, reads, nested>>

hook_command(callback_data, accept) ==
  /\ todo = <<>>
  /\ Regs < limit.regs
  /\ LET data == [kind |-> "CommandHookData", alloc |-> TRUE, frees |-> 0,
                  callback |-> TRUE,
                  callback_data |-> unwrap_or_default(callback_data)]
         data_ref == Len(heap) + 1
         hook_ptr == HostReturn(accept)
     IN /\ heap' = Append(heap, data)
        /\ host' = HostRegister("hook_command", NULL, <<"c_hook_cb">>, <<data_ref>>, hook_ptr)
        /\ hostLog' = Append(hostLog,
             << [op |-> "hook_command", callbacks |-> <<"c_hook_cb">>,
                 pointers |-> <<data_ref>>, datas |-> <<NULL>>, ret |-> hook_ptr] >>)
        /\ handles' = handles @@
             (data_ref :> [type |-> "CommandHook", hook |-> [ptr |-> hook_ptr],
                           hook_data |-> data_ref])
  /\ UNCHANGED <<todo, checkRcs, limit, options, table, reads, nested>>

hook_fd(fd_object, mode, callback_data, accept) ==
  /\ todo = <<>>
  /\ Regs < limit.regs
  /\ LET fd == fd_object
         data == [kind |-> "FdHookData", alloc |-> TRUE, frees |-> 0,
                  callback |-> TRUE,
                  callback_data |-> unwrap_or_default(callback_data),
                  fd_object |-> fd_object]
         data_ref == Len(heap) + 1
         rw == as_tuple(mode)
         hook_ptr == HostReturn(accept)
     IN /\ heap' = Append(heap, data)
        /\ host' = HostRegister("hook_fd", NULL, <<"c_hook_cb">>, <<data_ref>>, hook_ptr)
        /\ hostLog' = Append(hostLog,
             << [op |-> "hook_fd", fd |-> fd, read |-> rw[1], write |-> rw[2],
                 exception |-> 0, callbacks |-> <<"c_hook_cb">>,
                 pointers |-> <<data_ref>>, datas |-> <<NULL>>, ret |-> hook_ptr] >>)
        /\ handles' = handles @@
             (data_ref :> [type |-> "FdHook", hook |-> [ptr |-> hook_ptr],
                           hook_data |-> data_ref])
  /\ UNCHANGED <<todo, checkRcs, limit, options, table, reads, nested>>

(* A CommandHook goes out of scope. *)
DropCommandHook(a) ==
  /\ todo = <<>>
  /\ a \in DOMAIN handles
  /\ handles[a].type = "CommandHook"
  /\ todo' = CommandHookDrop(handles[a])
  /\ handles' = [x \in DOMAIN handles \ {a} |-> handles[x]]
  /\ UNCHANGED <<heap, host, hostLog, checkRcs, limit, options, table, reads, nested>>

(* An FdHook goes out of scope. *)
DropFdHook(a) ==
  /\ todo = <<>>
  /\ a \in DOMAIN handles
  /\ handles[a].type = "FdHook"
  /\ todo' = FdHookDrop(handles[a])
  /\ handles' = [x \in DOMAIN handles \ {a} |-> handles[x]]
  /\ UNCHANGED <<heap, host, hostLog, checkRcs, limit, options, table, reads, nested>>

(* The running destructor makes its next host call. *)
HostFreeCall ==
  /\ todo # <<>>
  /\ Head(todo).step \notin {"Box::drop", "option out of scope"}
  /\ hostLog' = [hostLog EXCEPT ![Head(todo).owner] = Append(@,
       [op |-> Head(todo).step, ptr |-> Head(todo).ptr])]
  /\ host' = HostFreeEffect(Head(todo).step, Head(todo).ptr)
  /\ todo' = Tail(todo)
  /\ UNCHANGED <<heap, handles, checkRcs, limit, options, table, reads, nested>>

(* The running destructor frees a Context Box. *)
BoxFree ==
  /\ todo # <<>>
  /\ Head(todo).step = "Box::drop"
  /\ heap' = [heap EXCEPT ![Head(todo).addr].alloc = FALSE,
                          ![Head(todo).addr].frees = @ + 1]
  /\ todo' = Tail(todo)
  /\ UNCHANGED <<host, handles, hostLog, checkRcs, limit, options, table, reads, nested>>

(* The host runs a registered command. *)
HostRunCommand(h) ==
  /\ todo = <<>>
  /\ h \in 1..Len(host)
  /\ host[h].kind = "hook_command" /\ host[h].live
  /\ TotalInvoked < limit.invocations
  /\ LET pointer == host[h].pointers[1]
         r == c_hook_cb_command(heap[pointer])
     IN /\ heap' = [heap EXCEPT ![pointer] = r.box]
        /\ host' = [host EXCEPT ![h].invoked = @ + 1, ![h].rc = r.rc]
  /\ UNCHANGED <<handles, todo, hostLog, checkRcs, limit, options, table, reads, nested>>

(* The host reports an event on a watched descriptor. *)
HostFdEvent(h, fd) ==
  /\ todo = <<>>
  /\ h \in 1..Len(host)
  /\ host[h].kind = "hook_fd" /\ host[h].live
  /\ TotalInvoked < limit.invocations
  /\ LET pointer == host[h].pointers[1]
         r == c_hook_cb_fd(heap[pointer], fd)
     IN /\ heap' = [heap EXCEPT ![pointer] = r.box]
        /\ host' = [host EXCEPT ![h].invoked = @ + 1, ![h].rc = r.rc,
                                 ![h].seen = @ \cup {<<fd, r.fd_object>>}]
  /\ UNCHANGED <<handles, todo, hostLog, checkRcs, limit, options, table, reads, nested>>

(***************************************************************************)
(* config.rs                                                               *)
(***************************************************************************)

OptionTypes == {"boolean", "integer", "string", "color"}

(* Variant of ConfigSectionDrop: the section is forgotten, the host is not  *)
(* called.                                                                 *)
ConfigSectionDropForgotten(section, owner) == <<>>

(* impl Drop for ConfigSection: the section's options, then the section. *)
ConfigSectionDrop(section, owner) ==
  << [step |-> "config_section_free_options", ptr |-> section.ptr, owner |-> owner],
     [step |-> "config_section_free", ptr |-> section.ptr, owner |-> owner] >>

RECURSIVE SectionsClear(_, _, _)
(* self.sections.clear(): every section is dropped, in the map's order. *)
SectionsClear(sections, order, owner) ==
  IF order = <<>> THEN <<>>
  ELSE ConfigSectionDrop(sections[Head(order)], owner)
         \o SectionsClear(sections, Tail(order), owner)

(* Variant of ConfigDrop: config_free is called before the sections are    *)
(* cleared.                                                                *)
ConfigDropFreeFirst(hd, order) ==
  <<[step |-> "config_free", ptr |-> hd.ptr, owner |-> hd.config_data]>>
    \o SectionsClear(hd.sections, order, hd.config_data)
    \o BoxDrop(hd.config_data)

(* impl Drop for Config, then the drop glue of its fields: the sections    *)
(* are cleared, config_free is called, and _config_data is freed.          *)
ConfigDrop(hd, order) ==
  SectionsClear(hd.sections, order, hd.config_data)
    \o <<[step |-> "config_free", ptr |-> hd.ptr, owner |-> hd.config_data]>>
    \o BoxDrop(hd.config_data)

(* Variant of Slot: the trampoline is installed whatever the Option is. *)
SlotAlways(cb, trampoline) == trampoline

(* The function pointer a callback slot gets for an Option<fn>. *)
Slot(cb, trampoline) == IF cb THEN trampoline ELSE NullFn

(* Variant of c_reload_cb: a missing callback is reported as an error. *)
c_reload_cb_error(box) ==
  [box |-> IF box.reload_cb THEN [box EXCEPT !.reload_data = UserCallback(@)] ELSE box,
   rc |-> IF box.reload_cb THEN WEECHAT_RC_OK ELSE "WEECHAT_RC_ERROR"]

(* config_new::c_reload_cb *)
c_reload_cb(box) ==
  [box |-> IF box.reload_cb THEN [box EXCEPT !.reload_data = UserCallback(@)] ELSE box,
   rc |-> WEECHAT_RC_OK]

(* What the user's check callback concludes about a proposed value. *)
UserVerdict(value) ==
  CASE value = "ok" -> "accept" [] value = "bad" -> "reject" [] OTHER -> "panic"

(* The marker of a panic that leaves the trampoline: the function does not *)
(* return.                                                                 *)
Unwinding == "unwinding"

(* What a panic that leaves an extern "C" function does, depending on the  *)
(* build: the process aborts, or the stack is unwound into the host's      *)
(* frames.                                                                 *)
PanicOutcomes == {"abort", "unwind into host"}

(* ConfigOption::from_ptrs: a wrapper for the host's option pointer. *)
from_ptrs(option_pointer, weechat_ptr) ==
  [ptr |-> option_pointer, weechat_ptr |-> weechat_ptr]

(* The local `option` of a trampoline goes out of scope when it ends. *)
OptionScopeEnd == <<[step |-> "option out of scope"]>>

(* new_option::c_check_cb: the callback sees the proposed value; whatever  *)
(* it concludes about it, it returns nothing; nothing catches its panic.   *)
c_check_cb(box, value) ==
  IF box.check_cb /\ UserVerdict(value) = "panic"
  THEN [box |-> box, rc |-> Unwinding]
  ELSE [box |-> IF box.check_cb THEN [box EXCEPT !.check_cb_data = UserCallback(@)]
                ELSE box,
        rc |-> WEECHAT_RC_OK]

(* Variant of c_change_cb: the callback is given the check phase's state. *)
c_change_cb_check_data(box) ==
  [box |-> IF box.change_cb THEN [box EXCEPT !.check_cb_data = UserCallback(@)] ELSE box,
   rc |-> "void"]

(* new_option::c_change_cb *)
c_change_cb(box) ==
  [box |-> IF box.change_cb THEN [box EXCEPT !.change_cb_data = UserCallback(@)] ELSE box,
   rc |-> "void"]

(* new_option::c_delete_cb *)
c_delete_cb(box) ==
  [box |-> IF box.delete_cb THEN [box EXCEPT !.delete_cb_data = UserCallback(@)] ELSE box,
   rc |-> "void"]

config_new(reload_callback, reload_data, accept) ==
  /\ todo = <<>>
  /\ Regs < limit.regs
  /\ LET config_pointers == [kind |-> "ConfigPointers", alloc |-> TRUE, frees |-> 0,
                             reload_cb |-> reload_callback,
                             reload_data |-> unwrap_or_default(reload_data)]
         config_pointers_ref == Len(heap) + 1
         reload_slot == Slot(reload_callback, "c_reload_cb")
         config_ptr == HostReturn(accept)
     IN /\ heap' = Append(heap, config_pointers)
        /\ host' = HostRegister("config", NULL, <<reload_slot>>,
                                <<config_pointers_ref>>, config_ptr)
        /\ hostLog' = Append(hostLog,
             << [op |-> "config_new", callbacks |-> <<reload_slot>>,
                 pointers |-> <<config_pointers_ref>>, datas |-> <<NULL>>,
                 ret |-> config_ptr] >>)
        /\ handles' = handles @@
             (config_pointers_ref :>
                [type |-> "Config", ptr |-> config_ptr,
                 config_data |-> config_pointers_ref,
                 sections |-> <<>>, borrowed |-> ""])
  /\ UNCHANGED <<todo, checkRcs, limit, options, table, reads, nested>>

(* The caller either reuses a name of the config's map or takes the next   *)
(* name it has not used for this config.                                   *)
FirstUse(a, name) ==
  \/ name \in DOMAIN handles[a].sections
  \/ \E i \in 1..Len(NameOrder) :
       /\ NameOrder[i] = name
       /\ \A j \in 1..Len(NameOrder) :
            NameOrder[j] \in DOMAIN handles[a].sections <=> j < i

(* The callbacks of a ConfigSectionInfo, in the order of the host's slots,  *)
(* and a ConfigSectionInfo: its name and the callbacks that are Some (the  *)
(* default has none).                                                      *)
SectionCallbacks ==
  <<"read_callback", "write_callback", "write_default_callback",
    "create_option_callback", "delete_option_callback">>

SectionCallbackSet == {SectionCallbacks[i] : i \in 1..Len(SectionCallbacks)}

ConfigSectionInfo(name, callbacks) == [name |-> name, callbacks |-> callbacks]

(* Variant of SectionSlots: a callback that is Some gets a trampoline. *)
SectionSlotsInstalled(section_info) ==
  [i \in 1..Len(SectionCallbacks) |->
     Slot(SectionCallbacks[i] \in section_info.callbacks, "c_section_cb")]

(* The five callback slots new_section passes to config_new_section: None, *)
(* whatever the ConfigSectionInfo holds.                                   *)
SectionSlots(section_info) == [i \in 1..Len(SectionCallbacks) |-> NullFn]

(* Config::new_section: the section is registered without callbacks and    *)
(* inserted under its name; a section the map held under that name is      *)
(* dropped by the insert. The log entry keeps, next to what the host       *)
(* received, the ConfigSectionInfo the caller passed.                      *)
new_section(a, section_info, accept) ==
  /\ todo = <<>>
  /\ a \in DOMAIN handles
  /\ handles[a].type = "Config"
  /\ Regs < limit.regs
  /\ FirstUse(a, section_info.name)
  /\ accept => HostMayAccept(handles[a].ptr)
  /\ LET self == handles[a]
         name == section_info.name
         ptr == HostReturn(accept)
         section == [ptr |-> ptr, config_ptr |-> self.ptr]
         nulls == <<NULL, NULL, NULL, NULL, NULL>>
     IN /\ host' = HostRegister("section", self.ptr, SectionSlots(section_info), nulls, ptr)
        /\ hostLog' = [hostLog EXCEPT ![a] = Append(@,
             [op |-> "config_new_section", config |-> self.ptr, name |-> name,
              section_info |-> section_info,
              callbacks |-> SectionSlots(section_info),
              pointers |-> nulls, datas |-> nulls, ret |-> ptr])]
        /\ todo' = IF name \in DOMAIN self.sections
                   THEN ConfigSectionDrop(self.sections[name], a)
                   ELSE <<>>
        /\ handles' = [handles EXCEPT
             ![a].sections = [n \in DOMAIN self.sections \cup {name} |->
                                IF n = name THEN section ELSE self.sections[n]],
             ![a].borrowed = name]
  /\ UNCHANGED <<heap, checkRcs, limit, options, table, reads, nested>>

(* ConfigSection::new_option, on the section the caller holds a reference  *)
(* to: one OptionPointers box, leaked, its address in all three slots.     *)
new_option(a, option_type, default_value, value, check_cb, change_cb, delete_cb, accept) ==
  /\ todo = <<>>
  /\ a \in DOMAIN handles
  /\ handles[a].type = "Config"
  /\ handles[a].borrowed \in DOMAIN handles[a].sections
  /\ Regs < limit.regs
  /\ LET self == handles[a].sections[handles[a].borrowed]
         option_pointers == [kind |-> "OptionPointers", alloc |-> TRUE, frees |-> 0,
                             check_cb |-> check_cb,
                             check_cb_data |-> unwrap_or_default(None),
                             change_cb |-> change_cb,
                             change_cb_data |-> unwrap_or_default(None),
                             delete_cb |-> delete_cb,
                             delete_cb_data |-> unwrap_or_default(None)]
         option_pointers_ref == Len(heap) + 1
         slots == << Slot(check_cb, "c_check_cb"), Slot(change_cb, "c_change_cb"),
                     Slot(delete_cb, "c_delete_cb") >>
         pointers == <<option_pointers_ref, option_pointers_ref, option_pointers_ref>>
         ptr == HostReturn(accept)
     IN /\ accept => HostMayAccept(self.ptr)
        /\ heap' = Append(heap, option_pointers)
        /\ host' = HostRegister("option", self.ptr, slots, pointers, ptr)
        /\ hostLog' = Append([hostLog EXCEPT ![a] = Append(@,
             [op |-> "config_new_option", config |-> self.config_ptr,
              section |-> self.ptr,
              default_value |-> default_value, value |-> value,
              callbacks |-> slots, pointers |-> pointers,
              datas |-> <<NULL, NULL, NULL>>, ret |-> ptr])], <<>>)
  /\ UNCHANGED <<handles, todo, checkRcs, limit, table, reads, nested>>

(* The wrapper a typed constructor returns for the pointer new_option      *)
(* returned.                                                               *)
ReturnOption(ptr) == options' = Append(options, [ptr |-> ptr, weechat_ptr |-> WeechatPtr])

new_string_option(a, change_cb, accept) ==
  /\ new_option(a, "string", OptionText, OptionText, FALSE, change_cb, FALSE, accept)
  /\ ReturnOption(HostReturn(accept))

(* Variant of bool_token: Rust's own text for a bool. *)
bool_token_display(b) == IF b THEN "true" ELSE "false"

(* if value { "on" } else { "off" } *)
bool_token(b) == IF b THEN "on" ELSE "off"

new_boolean_option(a, default_value, value, change_cb, accept) ==
  /\ new_option(a, "boolean", bool_token(default_value), bool_token(value),
                FALSE, change_cb, FALSE, accept)
  /\ ReturnOption(HostReturn(accept))

new_integer_option(a, change_cb, accept) ==
  /\ new_option(a, "integer", OptionText, OptionText, FALSE, change_cb, FALSE, accept)
  /\ ReturnOption(HostReturn(accept))

new_color_option(a, change_cb, accept) ==
  /\ new_option(a, "color", OptionText, OptionText, FALSE, change_cb, FALSE, accept)
  /\ ReturnOption(HostReturn(accept))

(* A Config goes out of scope. *)
DropConfig(a) ==
  /\ todo = <<>>
  /\ a \in DOMAIN handles
  /\ handles[a].type = "Config"
  /\ \E order \in Perms(DOMAIN handles[a].sections) :
       todo' = ConfigDrop(handles[a], order)
  /\ handles' = [x \in DOMAIN handles \ {a} |-> handles[x]]
  /\ UNCHANGED <<heap, host, hostLog, checkRcs, limit, options, table, reads, nested>>

(* The host reloads a configuration file. *)
HostReload(h) ==
  /\ todo = <<>>
  /\ h \in 1..Len(host)
  /\ host[h].kind = "config" /\ host[h].live
  /\ host[h].callbacks[1] # NullFn
  /\ TotalInvoked < limit.invocations
  /\ LET pointer == host[h].pointers[1]
         r == c_reload_cb(heap[pointer])
     IN /\ heap' = [heap EXCEPT ![pointer] = r.box]
        /\ host' = [host EXCEPT ![h].invoked = @ + 1, ![h].rc = r.rc]
  /\ UNCHANGED <<handles, todo, hostLog, checkRcs, limit, options, table, reads, nested>>

(* The host asks whether a value may be set. *)
HostOptionCheck(h, value) ==
  /\ todo = <<>>
  /\ h \in 1..Len(host)
  /\ host[h].kind = "option" /\ host[h].live
  /\ host[h].callbacks[1] # NullFn
  /\ TotalInvoked < limit.invocations
  /\ LET pointer == host[h].pointers[1]
         r == c_check_cb(heap[pointer], value)
     IN /\ heap' = [heap EXCEPT ![pointer] = r.box]
        /\ IF r.rc = Unwinding
           THEN /\ \E outcome \in PanicOutcomes :
                     checkRcs' = checkRcs \cup {<<UserVerdict(value), outcome>>}
                /\ host' = [host EXCEPT ![h].invoked = @ + 1]
                /\ UNCHANGED <<options, todo>>
           ELSE /\ checkRcs' = checkRcs \cup {<<UserVerdict(value), r.rc>>}
                /\ host' = [host EXCEPT ![h].invoked = @ + 1, ![h].rc = r.rc]
                /\ options' = Append(options, from_ptrs(h, WeechatPtr))
                /\ todo' = OptionScopeEnd
  /\ UNCHANGED <<handles, hostLog, limit, table, reads, nested>>

(* The host reports that an option's value changed. *)
HostOptionChange(h) ==
  /\ todo = <<>>
  /\ h \in 1..Len(host)
  /\ host[h].kind = "option" /\ host[h].live
  /\ host[h].callbacks[2] # NullFn
  /\ TotalInvoked < limit.invocations
  /\ LET pointer == host[h].pointers[2]
         r == c_change_cb(heap[pointer])
     IN /\ heap' = [heap EXCEPT ![pointer] = r.box]
        /\ host' = [host EXCEPT ![h].invoked = @ + 1, ![h].rc = r.rc]
        /\ options' = Append(options, from_ptrs(h, WeechatPtr))
        /\ todo' = OptionScopeEnd
  /\ UNCHANGED <<handles, hostLog, checkRcs, limit, table, reads, nested>>

(* The host reports that an option is about to be removed. *)
HostOptionDelete(h) ==
  /\ todo = <<>>
  /\ h \in 1..Len(host)
  /\ host[h].kind = "option" /\ host[h].live
  /\ host[h].callbacks[3] # NullFn
  /\ TotalInvoked < limit.invocations
  /\ LET pointer == host[h].pointers[3]
         r == c_delete_cb(heap[pointer])
     IN /\ heap' = [heap EXCEPT ![pointer] = r.box]
        /\ host' = [host EXCEPT ![h].invoked = @ + 1, ![h].rc = r.rc]
        /\ options' = Append(options, from_ptrs(h, WeechatPtr))
        /\ todo' = OptionScopeEnd
  /\ UNCHANGED <<handles, hostLog, checkRcs, limit, table, reads, nested>>

(* The trampoline ends: its local option wrapper, the last one built, is   *)
(* dropped.                                                                *)
OptionOutOfScope ==
  /\ todo # <<>>
  /\ Head(todo).step = "option out of scope"
  /\ options' = SubSeq(options, 1, Len(options) - 1)
  /\ todo' = Tail(todo)
  /\ UNCHANGED <<heap, host, handles, hostLog, checkRcs, limit, table, reads, nested>>

(* The caller drops an option wrapper a constructor returned. *)
DropOption(i) ==
  /\ todo = <<>>
  /\ i \in 1..Len(options)
  /\ options' = SubSeq(options, 1, i - 1) \o SubSeq(options, i + 1, Len(options))
  /\ UNCHANGED <<heap, host, handles, todo, hostLog, checkRcs, limit, table, reads, nested>>

(* A user callback has panicked in a trampoline: the run is over. *)
Crashed == \E p \in checkRcs : p[1] = "panic"

(***************************************************************************)
(* hdata.rs                                                                *)
(***************************************************************************)

(* The result types of HData::get_var. *)
HDataTypes == {"Cow<str>", "String", "char", "i64", "i32", "DateTime<Utc>", "HDataPointer"}

(* The type tags of the host; "WEECHAT_HDATA_OTHER" stands for every tag   *)
(* no result type expects.                                                 *)
HDataTags ==
  {"WEECHAT_HDATA_STRING", "WEECHAT_HDATA_CHAR", "WEECHAT_HDATA_LONG",
   "WEECHAT_HDATA_INTEGER", "WEECHAT_HDATA_TIME", "WEECHAT_HDATA_POINTER",
   "WEECHAT_HDATA_OTHER"}

(* The fields of the table and the names a caller asks for. *)
HFields == {"f"}
HNames == {"f", "g"}

(* What a getter returns: a number, a c_char, or an address (0 is null). *)
RawValues == -1..MaxRaw

(* hdata_get_var_type of the host: the declared tag of the field. *)
hdata_get_var_type(name) ==
  IF name \in DOMAIN table THEN table[name].type ELSE "WEECHAT_HDATA_OTHER"

(* hdata_string, hdata_char, hdata_long, hdata_integer, hdata_time and     *)
(* hdata_pointer of the host: the field's content as the getter's C type.  *)
HostGetter(getter, name) ==
  IF name \in DOMAIN table THEN table[name].raw ELSE NULL

HostCall(fn, ret) == [fn |-> fn, ret |-> ret]

(* CStr::from_ptr(ret).to_string_lossy(): the text at an address *)
to_string_lossy(ret) == <<"str", ret>>

(* Variant of char_try_into: the c_char is cast to u8, a negative value    *)
(* wraps around.                                                           *)
char_try_into_wrapping(c_char) == Some(c_char % 256)

(* c_char.try_into().map(|ch: u8| ch as char).ok() *)
char_try_into(c_char) == IF c_char >= 0 THEN Some(c_char) ELSE None

(* Variant of hdata_value_cow: the text is fetched before the tag is       *)
(* looked at.                                                              *)
hdata_value_cow_eager(name) ==
  LET ret == HostGetter("hdata_string", name)
      tag == hdata_get_var_type(name)
      calls == <<HostCall("hdata_string", ret), HostCall("hdata_get_var_type", tag)>>
  IN IF tag # "WEECHAT_HDATA_STRING" THEN [calls |-> calls, value |-> None]
     ELSE [calls |-> calls,
           value |-> IF ret = NULL THEN None ELSE Some(to_string_lossy(ret))]

(* impl HDataType for Cow<str> *)
hdata_value_cow(name) ==
  LET tag == hdata_get_var_type(name)
      first == <<HostCall("hdata_get_var_type", tag)>>
  IN IF tag # "WEECHAT_HDATA_STRING" THEN [calls |-> first, value |-> None]
     ELSE LET ret == HostGetter("hdata_string", name)
          IN [calls |-> Append(first, HostCall("hdata_string", ret)),
              value |-> IF ret = NULL THEN None ELSE Some(to_string_lossy(ret))]

(* impl HDataType for String: the Cow<str> read, made owned *)
hdata_value_string(name) == hdata_value_cow(name)

(* impl HDataType for char *)
hdata_value_char(name) ==
  LET tag == hdata_get_var_type(name)
      first == <<HostCall("hdata_get_var_type", tag)>>
  IN IF tag # "WEECHAT_HDATA_CHAR" THEN [calls |-> first, value |-> None]
     ELSE LET c_char == HostGetter("hdata_char", name)
          IN [calls |-> Append(first, HostCall("hdata_char", c_char)),
              value |-> char_try_into(c_char)]

(* impl HDataType for i64 *)
hdata_value_i64(name) ==
  LET tag == hdata_get_var_type(name)
      first == <<HostCall("hdata_get_var_type", tag)>>
  IN IF tag # "WEECHAT_HDATA_LONG" THEN [calls |-> first, value |-> None]
     ELSE LET ret == HostGetter("hdata_long", name)
          IN [calls |-> Append(first, HostCall("hdata_long", ret)), value |-> Some(ret)]

(* Variant of hdata_value_i32: a long field is read as an integer too. *)
hdata_value_i32_narrowing(name) ==
  LET tag == hdata_get_var_type(name)
      first == <<HostCall("hdata_get_var_type", tag)>>
  IN IF tag \notin {"WEECHAT_HDATA_INTEGER", "WEECHAT_HDATA_LONG"}
     THEN [calls |-> first, value |-> None]
     ELSE LET ret == HostGetter("hdata_integer", name)
          IN [calls |-> Append(first, HostCall("hdata_integer", ret)), value |-> Some(ret)]

(* impl HDataType for i32 *)
hdata_value_i32(name) ==
  LET tag == hdata_get_var_type(name)
      first == <<HostCall("hdata_get_var_type", tag)>>
  IN IF tag # "WEECHAT_HDATA_INTEGER" THEN [calls |-> first, value |-> None]
     ELSE LET ret == HostGetter("hdata_integer", name)
          IN [calls |-> Append(first, HostCall("hdata_integer", ret)), value |-> Some(ret)]

(* impl HDataType for DateTime<Utc> *)
hdata_value_datetime(name) ==
  LET tag == hdata_get_var_type(name)
      first == <<HostCall("hdata_get_var_type", tag)>>
  IN IF tag # "WEECHAT_HDATA_TIME" THEN [calls |-> first, value |-> None]
     ELSE LET unix_time == HostGetter("hdata_time", name)
          IN [calls |-> Append(first, HostCall("hdata_time", unix_time)),
              value |-> Some(<<"utc", unix_time>>)]

(* impl HDataType for HDataPointer *)
hdata_value_pointer(name) ==
  LET tag == hdata_get_var_type(name)
      first == <<HostCall("hdata_get_var_type", tag)>>
  IN IF tag # "WEECHAT_HDATA_POINTER" THEN [calls |-> first, value |-> None]
     ELSE LET ret == HostGetter("hdata_pointer", name)
          IN [calls |-> Append(first, HostCall("hdata_pointer", ret)),
              value |-> Some([ptr |-> ret, weechat |-> WeechatPtr])]

(* HDataType::hdata_value, by result type *)
hdata_value(T, name) ==
  CASE T = "Cow<str>" -> hdata_value_cow(name)
    [] T = "String" -> hdata_value_string(name)
    [] T = "char" -> hdata_value_char(name)
    [] T = "i64" -> hdata_value_i64(name)
    [] T = "i32" -> hdata_value_i32(name)
    [] T = "DateTime<Utc>" -> hdata_value_datetime(name)
    [] T = "HDataPointer" -> hdata_value_pointer(name)

(* HData::get_var::<T>(name) *)
get_var(T, name) ==
  /\ reads' = [type |-> T, name |-> name] @@ hdata_value(T, name)
  /\ UNCHANGED <<heap, host, handles, todo, hostLog, checkRcs, limit, options, table, nested>>

(* The hdata tables the host knows, the names get_hdata is called with,    *)
(* and the handle of a table.                                              *)
KnownTables == {"buffer"}
TableNames == {"buffer", "unknown"}
TablePtr == 1

(* hdata_get of the host: the table of that name, or null. *)
hdata_get(weechat, name) == IF name \in KnownTables THEN TablePtr ELSE NULL

(* Variant of HDataFromPointer: the table handle and the object change     *)
(* places.                                                                 *)
HDataFromPointerSwapped(self, hdata) ==
  IF hdata = NULL THEN None
  ELSE Some([weechat_ptr |-> self.weechat, object |-> hdata, ptr |-> self.ptr])

(* impl HasHData for HDataPointer: what get_hdata returns for the handle   *)
(* hdata_get gave.                                                         *)
HDataFromPointer(self, hdata) ==
  IF hdata = NULL THEN None
  ELSE Some([weechat_ptr |-> self.weechat, object |-> self.ptr, ptr |-> hdata])

(* HDataPointer::get_hdata(name), on the pointer the last read returned. *)
get_hdata(name) ==
  /\ reads # <<>>
  /\ reads.type = "HDataPointer"
  /\ reads.value # None
  /\ LET self == reads.value[1]
         hdata == hdata_get(self.weechat, name)
     IN nested' = [self |-> self, name |-> name,
                   calls |-> <<HostCall("hdata_get", hdata)>>,
                   value |-> HDataFromPointer(self, hdata)]
  /\ UNCHANGED <<heap, host, handles, todo, hostLog, checkRcs, limit, options, table, reads>>

(***************************************************************************)
(* Properties                                                              *)
(***************************************************************************)

(* The calls of the log, as (owner, position) pairs. *)
Calls == UNION {{<<a, i>> : i \in 1..Len(hostLog[a])} : a \in 1..Len(hostLog)}
Call(c) == hostLog[c[1]][c[2]]

RegOps == {"hook_command", "hook_fd", "config_new", "config_new_section"}
FreeOps == {"unhook", "config_free", "config_section_free"}
HandleBoxKinds == {"CommandHookData", "FdHookData", "ConfigPointers"}
HookBoxKinds == {"CommandHookData", "FdHookData"}

(* No destructor is running and no Resource Handle is left. *)
AllDropped == todo = <<>> /\ DOMAIN handles = {}

(* The call that registered the Context Box at address a. *)
RegCalls(a) == {c \in Calls : "pointers" \in DOMAIN Call(c) /\ \E k \in DOMAIN Call(c).pointers : Call(c).pointers[k] = a}

(* The host handle the registration of box a returned (NULL: it failed). *)
RegCallOf(a) == (CHOOSE c \in RegCalls(a) : TRUE) \* one call per box
RegHandle(a) == Call(RegCallOf(a)).ret

(* The deregistration call of a Resource Handle that owns a box of a kind. *)
DeregOp(kind) == IF kind = "ConfigPointers" THEN "config_free" ELSE "unhook"

(* C1: once every Resource Handle has been dropped, the host has seen as   *)
(* many free calls (unhook, config_free, config_section_free) as           *)
(* registrations that returned a non-null handle.                          *)
C1_FreesEqualSuccessfulRegistrations ==
  AllDropped =>
    Cardinality({c \in Calls : Call(c).op \in FreeOps})
      = Cardinality({c \in Calls : Call(c).op \in RegOps /\ Call(c).ret # NULL})

(* C2: in the calls a Config makes, config_section_free on a section comes *)
(* right after config_section_free_options on it; config_free is called    *)
(* once, after every section the config registered has been freed, when no *)
(* section or option of the config is live in the host any more, and no    *)
(* call follows it.                                                        *)
C2_ChildrenBeforeParent ==
  \A a \in 1..Len(hostLog) :
    LET L == hostLog[a] IN
    \A j \in 1..Len(L) :
      /\ L[j].op = "config_section_free" =>
           j > 1 /\ L[j-1].op = "config_section_free_options" /\ L[j-1].ptr = L[j].ptr
      /\ L[j].op = "config_free" =>
           /\ j = Len(L)
           /\ \A k \in 1..(j-1) : L[k].op # "config_free"
           /\ \A i \in 1..(j-1) : L[i].op = "config_new_section" =>
                \E m \in (i+1)..(j-1) :
                  L[m].op = "config_section_free" /\ L[m].ptr = L[i].ret
           /\ CountOp(L, "config_section_free") = CountOp(L, "config_new_section")
           /\ \A i \in 1..(j-1) :
                L[i].op \in {"config_new_section", "config_new_option"} /\ L[i].ret # NULL
                  => ~host[L[i].ret].live

(* A config that registered two sections and an option, all accepted by    *)
(* the host, has been dropped.                                             *)
C2_Witness ==
  \E a \in 1..Len(hostLog) :
    LET L == hostLog[a] IN
    /\ Len(L) > 0 /\ L[Len(L)].op = "config_free" /\ L[Len(L)].ptr # NULL
    /\ \E i, j, k \in 1..Len(L) :
         /\ i # j
         /\ L[i].op = "config_new_section" /\ L[i].ret # NULL
         /\ L[j].op = "config_new_section" /\ L[j].ret # NULL
         /\ L[k].op = "config_new_option" /\ L[k].ret # NULL

(* C3: a Context Box of a CommandHook, FdHook or Config is freed only      *)
(* after its handle's deregistration call (unhook, config_free) on the     *)
(* handle the registration returned, and no live host registration refers  *)
(* to a freed box.                                                         *)
C3_DeregisterBeforeBoxFree ==
  \A a \in 1..Len(heap) :
    (heap[a].kind \in HandleBoxKinds /\ ~heap[a].alloc) =>
      /\ \E i \in 1..Len(hostLog[a]) :
           /\ hostLog[a][i].op = DeregOp(heap[a].kind)
           /\ hostLog[a][i].ptr = hostLog[a][1].ret
      /\ \A h \in 1..Len(host) :
           host[h].live => \A k \in DOMAIN host[h].pointers : host[h].pointers[k] # a

(* A command hook and a config, both registered with the host, have been   *)
(* dropped and their boxes freed.                                          *)
C3_Witness ==
  \E a, b \in 1..Len(heap) :
    /\ heap[a].kind = "CommandHookData" /\ ~heap[a].alloc /\ hostLog[a][1].ret # NULL
    /\ heap[b].kind = "ConfigPointers" /\ ~heap[b].alloc /\ hostLog[b][1].ret # NULL

(* C4: when a registration call returned a null handle, the Context Box    *)
(* allocated for it is not allocated any more and no Resource Handle       *)
(* exists for it.                                                          *)
C4_FailedRegistrationFailsConstruction ==
  \A a \in 1..Len(heap) :
    RegHandle(a) = NULL => ~heap[a].alloc /\ a \notin DOMAIN handles

(* C5: no Context Box is freed twice, and once every Resource Handle has   *)
(* been dropped no Context Box is still allocated.                         *)
C5_BoxesFreedExactlyOnce ==
  /\ \A a \in 1..Len(heap) : heap[a].frees <= 1
  /\ AllDropped => \A a \in 1..Len(heap) : ~heap[a].alloc

(* The kind of Context Box a host registration was given. *)
BoxKindOf(kind) ==
  CASE kind = "hook_command" -> "CommandHookData"
    [] kind = "hook_fd" -> "FdHookData"
    [] kind = "config" -> "ConfigPointers"
    [] kind = "option" -> "OptionPointers"
    [] OTHER -> "none"

(* C6: while the host holds a live registration, the address it was given  *)
(* is the address of an allocated Context Box of the registration's kind,  *)
(* the one the registration call passed.                                   *)
C6_BoxLiveWhileRegistered ==
  \A h \in 1..Len(host) :
    host[h].live =>
      \A k \in DOMAIN host[h].pointers :
        LET p == host[h].pointers[k] IN
        p # NULL =>
          /\ heap[p].alloc
          /\ heap[p].frees = 0
          /\ heap[p].kind = BoxKindOf(host[h].kind)
          /\ RegHandle(p) = h

(* The host has invoked the trampoline of a live registration after        *)
(* another handle was dropped and its box freed.                           *)
C6_Witness ==
  \E h \in 1..Len(host), b \in 1..Len(heap) :
    /\ host[h].live /\ host[h].invoked > 0
    /\ heap[host[h].pointers[1]].alloc
    /\ ~heap[b].alloc

(* The invocations the host made of the hook registered for box a. *)
InvokedOf(a) == IF RegHandle(a) = NULL THEN 0 ELSE host[RegHandle(a)].invoked

Unhooked(a) == CountOp(hostLog[a], "unhook") > 0

(* C7: a hook is unhooked at most once; once its handle is destroyed it    *)
(* has been unhooked exactly once, on the handle the registration          *)
(* returned; and from the return of the unhook call on, the host makes no  *)
(* invocation of its callback and the callback's state does not change.    *)
C7_DropCancelsCallback ==
  /\ [](\A a \in 1..Len(heap) :
          heap[a].kind \in HookBoxKinds =>
            /\ CountOp(hostLog[a], "unhook") <= 1
            /\ ~heap[a].alloc =>
                 /\ CountOp(hostLog[a], "unhook") = 1
                 /\ hostLog[a][Len(hostLog[a])].ptr = hostLog[a][1].ret)
  /\ [][\A a \in 1..Len(heap) :
          (heap[a].kind \in HookBoxKinds /\ (Unhooked(a) \/ ~heap[a].alloc)) =>
            /\ heap'[a].callback_data = heap[a].callback_data
            /\ InvokedOf(a)' = InvokedOf(a)]_vars

(* A command hook was invoked three times and then dropped. *)
C7_Witness ==
  \E a \in 1..Len(heap) :
    /\ heap[a].kind = "CommandHookData" /\ ~heap[a].alloc
    /\ RegHandle(a) # NULL /\ InvokedOf(a) = 3

(* C8: the count in a command hook's Context Box equals the number of      *)
(* invocations the host has made of the hook's trampoline.                 *)
C8_CountEqualsInvocations ==
  \A h \in 1..Len(host) :
    host[h].kind = "hook_command" =>
      heap[host[h].pointers[1]].callback_data = host[h].invoked

(* A live command hook has been invoked three times and its count is 3. *)
C8_Witness ==
  \E h \in 1..Len(host) :
    /\ host[h].kind = "hook_command" /\ host[h].live /\ host[h].invoked = 3
    /\ heap[host[h].pointers[1]].callback_data = 3

(* C9: in every config_new and config_new_option call the host received,   *)
(* a callback slot holds the phase's trampoline when the caller supplied a *)
(* callback for the phase and a null function pointer when it did not.     *)
C9_AbsentPhaseGetsNullSlot ==
  \A c \in Calls :
    LET e == Call(c) IN
    /\ e.op = "config_new" =>
         e.callbacks[1] = (IF heap[e.pointers[1]].reload_cb THEN "c_reload_cb" ELSE NullFn)
    /\ e.op = "config_new_option" =>
         /\ e.callbacks[1] = (IF heap[e.pointers[1]].check_cb THEN "c_check_cb" ELSE NullFn)
         /\ e.callbacks[2] = (IF heap[e.pointers[2]].change_cb THEN "c_change_cb" ELSE NullFn)
         /\ e.callbacks[3] = (IF heap[e.pointers[3]].delete_cb THEN "c_delete_cb" ELSE NullFn)

(* An option was registered with a check callback and without a delete     *)
(* callback, in a config registered without a reload callback.             *)
C9_Witness ==
  \E c, d \in Calls :
    /\ Call(c).op = "config_new_option"
    /\ heap[Call(c).pointers[1]].check_cb /\ ~heap[Call(c).pointers[1]].delete_cb
    /\ Call(c).callbacks[1] = "c_check_cb" /\ Call(c).callbacks[3] = NullFn
    /\ Call(d).op = "config_new" /\ Call(d).callbacks[1] = NullFn

(* C10: the check trampoline reports a value the user's callback rejects   *)
(* with another return code than a value it accepts.                       *)
C10_CheckOutcomesDistinct ==
  \A p, q \in checkRcs : p[1] # q[1] => p[2] # q[2]

(* C11: when the user's callback panics in the check trampoline, the       *)
(* trampoline still returns to the host, and not with the code it returns  *)
(* for an accepted value.                                                  *)
C11_PanicCaughtAtTrampoline ==
  \A p \in checkRcs :
    p[1] = "panic" => p[2] \notin PanicOutcomes /\ p[2] # WEECHAT_RC_OK

(* The trampoline invocations of a step, by registration. *)
StatusTrampoline(h) ==
  \/ HostRunCommand(h)
  \/ \E fd \in Fds : HostFdEvent(h, fd)
  \/ HostReload(h)
  \/ \E v \in OptionValues : HostOptionCheck(h, v)

AbsentCallbackTrampoline(h) ==
  \/ HostReload(h) /\ ~heap[host[h].pointers[1]].reload_cb
  \/ (\E v \in OptionValues : HostOptionCheck(h, v)) /\ ~heap[host[h].pointers[1]].check_cb
  \/ HostOptionChange(h) /\ ~heap[host[h].pointers[2]].change_cb
  \/ HostOptionDelete(h) /\ ~heap[host[h].pointers[3]].delete_cb

(* C12: every invocation of a status-returning trampoline (command hook,   *)
(* fd hook, config reload, option check) that returns hands the host       *)
(* WEECHAT_RC_OK, and an invocation of a trampoline for a Context Box      *)
(* whose callback for the phase is absent leaves every Context Box as it   *)
(* was.                                                                    *)
C12_HandledCodeAndNoOp ==
  [][\A h \in 1..Len(host) :
       /\ (StatusTrampoline(h) /\ ~Crashed') => host'[h].rc = WEECHAT_RC_OK
       /\ AbsentCallbackTrampoline(h) => heap' = heap]_vars

(* The reload trampoline and the check trampoline have run for boxes that  *)
(* hold no callback, and returned WEECHAT_RC_OK.                           *)
C12_Witness ==
  \E h \in 1..Len(host) :
    /\ host[h].invoked > 0 /\ host[h].rc = WEECHAT_RC_OK
    /\ \/ host[h].kind = "config" /\ ~heap[host[h].pointers[1]].reload_cb
       \/ /\ host[h].kind = "option" /\ ~heap[host[h].pointers[1]].check_cb
          /\ \E p \in checkRcs : p[2] = WEECHAT_RC_OK

(* C13: every config_new_option call passes the address of one             *)
(* OptionPointers box in all three pointer slots, there are as many such   *)
(* boxes as calls, and an invocation of one phase's trampoline changes at   *)
(* most that phase's state slot of that box.                                *)
C13_OneBoxThreeSlots ==
  /\ [](/\ \A c \in Calls :
             Call(c).op = "config_new_option" =>
               /\ Call(c).pointers[1] = Call(c).pointers[2]
               /\ Call(c).pointers[2] = Call(c).pointers[3]
               /\ heap[Call(c).pointers[1]].kind = "OptionPointers"
               /\ \A d \in Calls :
                    (Call(d).op = "config_new_option" /\ d # c)
                      => Call(d).pointers[1] # Call(c).pointers[1]
        /\ Cardinality({a \in 1..Len(heap) : heap[a].kind = "OptionPointers"})
             = Cardinality({c \in Calls : Call(c).op = "config_new_option"}))
  /\ [][\A h \in 1..Len(host) :
          LET p == host[h].pointers[1] IN
          /\ (\E v \in OptionValues : HostOptionCheck(h, v)) =>
               heap' = [heap EXCEPT ![p].check_cb_data = heap'[p].check_cb_data]
          /\ HostOptionChange(h) =>
               heap' = [heap EXCEPT ![p].change_cb_data = heap'[p].change_cb_data]
          /\ HostOptionDelete(h) =>
               heap' = [heap EXCEPT ![p].delete_cb_data = heap'[p].delete_cb_data]]_vars

(* An option with all three callbacks has had its check and its change     *)
(* trampoline invoked once each: each of the two slots counts one call,    *)
(* the delete slot none.                                                   *)
C13_Witness ==
  \E h \in 1..Len(host) :
    /\ host[h].kind = "option" /\ host[h].invoked = 2
    /\ LET box == heap[host[h].pointers[1]] IN
       /\ box.check_cb /\ box.change_cb /\ box.delete_cb
       /\ box.check_cb_data = 1 /\ box.change_cb_data = 1 /\ box.delete_cb_data = 0

(* The tag a result type expects and the getter it uses. *)
ExpectedTag(T) ==
  CASE T \in {"Cow<str>", "String"} -> "WEECHAT_HDATA_STRING"
    [] T = "char" -> "WEECHAT_HDATA_CHAR"
    [] T = "i64" -> "WEECHAT_HDATA_LONG"
    [] T = "i32" -> "WEECHAT_HDATA_INTEGER"
    [] T = "DateTime<Utc>" -> "WEECHAT_HDATA_TIME"
    [] T = "HDataPointer" -> "WEECHAT_HDATA_POINTER"

GetterOf(T) ==
  CASE T \in {"Cow<str>", "String"} -> "hdata_string"
    [] T = "char" -> "hdata_char"
    [] T = "i64" -> "hdata_long"
    [] T = "i32" -> "hdata_integer"
    [] T = "DateTime<Utc>" -> "hdata_time"
    [] T = "HDataPointer" -> "hdata_pointer"

(* C14: a typed read of a field whose declared tag is not the tag of the   *)
(* result type returns None, and a read that returns a value has called    *)
(* the getter of its own type and no other.                                *)
C14_MismatchGivesNone ==
  reads # <<>> =>
    /\ hdata_get_var_type(reads.name) # ExpectedTag(reads.type) => reads.value = None
    /\ reads.value # None =>
         \A i \in 1..Len(reads.calls) :
           reads.calls[i].fn \in {"hdata_get_var_type", GetterOf(reads.type)}

(* A field declared with the tag of one result type has been read as       *)
(* another result type, and the read returned None.                        *)
C14_Witness ==
  /\ reads # <<>>
  /\ hdata_get_var_type(reads.name) = "WEECHAT_HDATA_LONG"
  /\ reads.type = "i32"
  /\ reads.value = None

(* C15: a text read or a pointer read of a field with the matching tag     *)
(* whose getter returns a null pointer returns None.                       *)
C15_NullPointerGivesNone ==
  (/\ reads # <<>>
   /\ reads.type \in {"Cow<str>", "String", "HDataPointer"}
   /\ hdata_get_var_type(reads.name) = ExpectedTag(reads.type)
   /\ HostGetter(GetterOf(reads.type), reads.name) = NULL)
    => reads.value = None

(* C19: a typed read first calls hdata_get_var_type for the field; it      *)
(* calls a getter only after that, only when the returned tag is the tag   *)
(* of the result type, and then the getter of that type, once; on a        *)
(* mismatch hdata_get_var_type is its only call.                           *)
C19_TypeQueriedFirst ==
  reads # <<>> =>
    /\ Len(reads.calls) \in {1, 2}
    /\ reads.calls[1].fn = "hdata_get_var_type"
    /\ reads.calls[1].ret = hdata_get_var_type(reads.name)
    /\ Len(reads.calls) = 2 =>
         /\ reads.calls[1].ret = ExpectedTag(reads.type)
         /\ reads.calls[2].fn = GetterOf(reads.type)
    /\ reads.calls[1].ret # ExpectedTag(reads.type) => Len(reads.calls) = 1

(* A text read of a field declared as a string has called                  *)
(* hdata_get_var_type and then hdata_string.                               *)
C19_Witness ==
  /\ reads # <<>>
  /\ reads.type = "Cow<str>"
  /\ Len(reads.calls) = 2
  /\ reads.calls[1].ret = "WEECHAT_HDATA_STRING"
  /\ reads.calls[2].fn = "hdata_string"

(* C20: the callback of an fd hook is always given the fd_object stored in *)
(* the box at registration, whatever fd number the host passes, and an     *)
(* invocation with one fd number leaves the same state as an invocation    *)
(* with any other.                                                         *)
C20_FdNumberIgnored ==
  /\ [](\A h \in 1..Len(host) :
          host[h].kind = "hook_fd" =>
            \A s \in host[h].seen :
              /\ s[2] = heap[host[h].pointers[1]].fd_object
              /\ s[2] = hostLog[host[h].pointers[1]][1].fd)
  /\ [][\A h \in 1..Len(host), fd \in Fds :
          HostFdEvent(h, fd) =>
            \A other \in Fds :
              /\ heap' = [heap EXCEPT ![host[h].pointers[1]] =
                            c_hook_cb_fd(heap[host[h].pointers[1]], other).box]
              /\ \A s \in host'[h].seen \ host[h].seen : s[2] = c_hook_cb_fd(heap[host[h].pointers[1]], other).fd_object]_vars

(* An fd hook has been invoked with the number of its watched object and   *)
(* with another number, and its callback was given the watched object both *)
(* times.                                                                  *)
C20_Witness ==
  \E h \in 1..Len(host) :
    /\ host[h].kind = "hook_fd" /\ host[h].invoked >= 2
    /\ \E s, t \in host[h].seen : s[1] # t[1] /\ s[2] = t[2]
    /\ heap[host[h].pointers[1]].callback_data = host[h].invoked

(* C16: every new_boolean_option call passes the host "on" for a true and  *)
(* "off" for a false, for the value and for the default value separately.  *)
C16_BooleanTokens ==
  [][\A a \in DOMAIN handles, d \in BOOLEAN, v \in BOOLEAN, accept \in BOOLEAN :
       new_boolean_option(a, d, v, TRUE, accept) =>
         LET e == hostLog'[a][Len(hostLog'[a])] IN
         /\ e.op = "config_new_option"
         /\ e.value = (IF v THEN "on" ELSE "off")
         /\ e.default_value = (IF d THEN "on" ELSE "off")]_vars

(* Two boolean options have been registered with value true and default    *)
(* false: the host received "on" and "off" both times.                     *)
C16_Witness ==
  \E a \in 1..Len(hostLog) :
    \E i, j \in 1..Len(hostLog[a]) :
      /\ i < j
      /\ hostLog[a][i].op = "config_new_option" /\ hostLog[a][j].op = "config_new_option"
      /\ hostLog[a][i].value = "on" /\ hostLog[a][i].default_value = "off"
      /\ hostLog[a][j].value = "on" /\ hostLog[a][j].default_value = "off"

(* The host handles the live wrapper objects hold: hooks, configs, the     *)
(* sections of the configs' maps, and the option wrappers.                 *)
HeldHandles ==
  {<<"handle", a>> : a \in {x \in DOMAIN handles : handles[x].type \in {"CommandHook", "FdHook"}}}
    \cup {<<"config", a>> : a \in {x \in DOMAIN handles : handles[x].type = "Config"}}
    \cup UNION {{<<"section", a, n>> : n \in DOMAIN handles[a].sections} :
                  a \in {x \in DOMAIN handles : handles[x].type = "Config"}}
    \cup {<<"option", i>> : i \in 1..Len(options)}

HandleOf(w) ==
  CASE w[1] = "handle" -> handles[w[2]].hook.ptr
    [] w[1] = "config" -> handles[w[2]].ptr
    [] w[1] = "section" -> handles[w[2]].sections[w[3]].ptr
    [] w[1] = "option" -> options[w[2]].ptr

(* The wrappers whose destruction deregisters the handle they hold: Hook,   *)
(* Config and ConfigSection by their Drop; the option wrappers as Resource *)
(* Handles (their destructor is not in the files modelled here).           *)
DeregisteringKinds == {"handle", "config", "section", "option"}

RegistrationCalls ==
  UNION {{hostLog[a][i] : i \in {k \in 1..Len(hostLog[a]) :
                                   hostLog[a][k].op \in {"hook_command", "hook_fd", "config_new",
                                                         "config_new_section", "config_new_option"}}} :
           a \in 1..Len(hostLog)}

(* C18: in every registration call the host has received (hook_command,    *)
(* hook_fd, config_new, config_new_section, config_new_option) every data  *)
(* pointer, one per callback slot, is null.                                *)
C18_DataPointersNull ==
  \A e \in RegistrationCalls :
    /\ Len(e.datas) = Len(e.callbacks)
    /\ \A i \in 1..Len(e.datas) : e.datas[i] = NULL

(* The host has received a hook registration, a config, a section and an   *)
(* option with its three callbacks installed.                              *)
C18_Witness ==
  /\ \E e \in RegistrationCalls : e.op \in {"hook_command", "hook_fd"} /\ e.pointers[1] # NULL
  /\ \E e \in RegistrationCalls : e.op = "config_new"
  /\ \E e \in RegistrationCalls : e.op = "config_new_section"
  /\ \E e \in RegistrationCalls :
       /\ e.op = "config_new_option"
       /\ \A i \in 1..3 : e.callbacks[i] # NullFn /\ e.pointers[i] # NULL

(* The read and write flags the claim gives for each mode. *)
ModeFlags(mode) ==
  CASE mode = "Read" -> [read |-> 1, write |-> 0]
    [] mode = "Write" -> [read |-> 0, write |-> 1]
    [] mode = "ReadWrite" -> [read |-> 1, write |-> 1]

(* C25: hook_fd passes the host the flags of its mode: Read gives (1, 0),  *)
(* Write (0, 1), ReadWrite (1, 1); each flag is 0 or 1 and one of them is  *)
(* 1.                                                                      *)
C25_ModeFlagsPassed ==
  [][\A f \in FdObjects, mode \in FdHookModes, d \in DataArgs, accept \in BOOLEAN :
       hook_fd(f, mode, d, accept) =>
         LET e == hostLog'[Len(hostLog')][1] IN
         /\ e.op = "hook_fd"
         /\ e.read = ModeFlags(mode).read
         /\ e.write = ModeFlags(mode).write
         /\ e.read \in {0, 1} /\ e.write \in {0, 1}
         /\ e.read + e.write >= 1]_vars

(* The host has received one hook_fd call made with Read and one made with *)
(* Write, with opposite flags.                                             *)
C25_Witness ==
  \E a, b \in 1..Len(hostLog) :
    /\ hostLog[a] # <<>> /\ hostLog[b] # <<>>
    /\ hostLog[a][1].op = "hook_fd" /\ hostLog[b][1].op = "hook_fd"
    /\ hostLog[a][1].read = 1 /\ hostLog[a][1].write = 0
    /\ hostLog[b][1].read = 0 /\ hostLog[b][1].write = 1

(* C24: a char read of a field declared as a char gives the character of   *)
(* the code hdata_char returned when that code is in 0..255, and nothing    *)
(* for any other value (a negative c_char), which is never wrapped.         *)
C24_CharInRange ==
  (/\ reads # <<>>
   /\ reads.type = "char"
   /\ hdata_get_var_type(reads.name) = "WEECHAT_HDATA_CHAR")
    => LET c_char == reads.calls[Len(reads.calls)].ret IN
       /\ reads.calls[Len(reads.calls)].fn = "hdata_char"
       /\ c_char \in 0..255 => reads.value = Some(c_char)
       /\ c_char \notin 0..255 => reads.value = None

(* A char has been read from a field declared as a char that holds a       *)
(* negative c_char: the read gave nothing.                                 *)
C24_Witness ==
  /\ reads # <<>>
  /\ reads.type = "char"
  /\ hdata_get_var_type(reads.name) = "WEECHAT_HDATA_CHAR"
  /\ Len(reads.calls) = 2
  /\ reads.calls[2].fn = "hdata_char"
  /\ reads.calls[2].ret < 0
  /\ reads.value = None

(* C21: get_hdata on a pointer a read returned gives nothing when          *)
(* hdata_get returns null for the table name; otherwise it gives a table    *)
(* whose object is the pointer that was read from the parent table, whose   *)
(* plugin handle is the parent's and whose handle is the one hdata_get      *)
(* returned.                                                                *)
C21_NestedTableOfPointer ==
  nested # <<>> =>
    LET hdata == nested.calls[1].ret IN
    /\ Len(nested.calls) = 1
    /\ nested.calls[1].fn = "hdata_get"
    /\ hdata = NULL => nested.value = None
    /\ hdata # NULL =>
         /\ nested.value # None
         /\ nested.value[1].object = nested.self.ptr
         /\ nested.value[1].weechat_ptr = WeechatPtr
         /\ nested.value[1].ptr = hdata
    /\ reads.type = "HDataPointer" /\ reads.value = Some(nested.self)
         => nested.self.ptr = HostGetter("hdata_pointer", reads.name)

(* A pointer other than the table handle has been read from the parent     *)
(* table and get_hdata on it has returned a table for that pointer.        *)
C21_Witness ==
  /\ nested # <<>>
  /\ nested.value # None
  /\ nested.self.ptr # TablePtr
  /\ nested.self.ptr # NULL
  /\ nested.value[1].object = nested.self.ptr

(* The config_new_section calls in the log of config a, those made later   *)
(* than call i under the same name, and the calls of a free function on    *)
(* the handle call i returned.                                             *)
SectionCallsOf(a) ==
  {i \in 1..Len(hostLog[a]) : hostLog[a][i].op = "config_new_section"}

LaterSameName(a, i) ==
  {j \in SectionCallsOf(a) : j > i /\ hostLog[a][j].name = hostLog[a][i].name}

FreesOf(a, i, op) ==
  {k \in 1..Len(hostLog[a]) :
     hostLog[a][k].op = op /\ hostLog[a][k].ptr = hostLog[a][i].ret}

SetMin(S) == CHOOSE x \in S : \A y \in S : x <= y
SetMax(S) == CHOOSE x \in S : \A y \in S : x >= y

(* C22: the sections map of a config holds one section per name that was   *)
(* registered, the one registered last under that name; a section replaced  *)
(* by a later new_section call of the same name is dropped in that call:    *)
(* right after the new registration the host gets options-free and then     *)
(* section-free for the old handle, before config_free, and a handle the    *)
(* host returned is never freed twice, nor freed while its section is in    *)
(* the map of a live config.                                                *)
C22_SectionReplacedAndFreedOnce ==
  \A a \in 1..Len(hostLog) :
    LET log == hostLog[a] IN
    /\ \A i \in SectionCallsOf(a) :
         LET later == LaterSameName(a, i)
             ptr == log[i].ret
         IN /\ later # {} =>
                 LET j == SetMin(later) IN
                 /\ Len(log) >= j + 1 =>
                      log[j + 1] = [op |-> "config_section_free_options", ptr |-> ptr]
                 /\ Len(log) >= j + 2 =>
                      log[j + 2] = [op |-> "config_section_free", ptr |-> ptr]
                 /\ todo = <<>> => Len(log) >= j + 2
                 /\ \A k \in 1..Len(log) : k <= j + 2 => log[k].op # "config_free"
            /\ ptr # NULL =>
                 /\ Cardinality(FreesOf(a, i, "config_section_free_options")) <= 1
                 /\ Cardinality(FreesOf(a, i, "config_section_free")) <= 1
                 /\ (later = {} /\ a \in DOMAIN handles) =>
                      FreesOf(a, i, "config_section_free") = {}
    /\ (a \in DOMAIN handles /\ handles[a].type = "Config") =>
         /\ DOMAIN handles[a].sections = {log[i].name : i \in SectionCallsOf(a)}
         /\ \A n \in DOMAIN handles[a].sections :
              handles[a].sections[n].ptr =
                log[SetMax({i \in SectionCallsOf(a) : log[i].name = n})].ret

(* A section the host had accepted was replaced by a later new_section     *)
(* call of the same name and freed in that call; the config has since been *)
(* dropped and its destructor has finished.                                *)
C22_Witness ==
  /\ todo = <<>>
  /\ \E a \in 1..Len(hostLog) :
       /\ \E k \in 1..Len(hostLog[a]) : hostLog[a][k].op = "config_free"
       /\ \E i \in SectionCallsOf(a) :
            /\ hostLog[a][i].ret # NULL
            /\ LaterSameName(a, i) # {}
            /\ Cardinality(FreesOf(a, i, "config_section_free")) = 1

Start ==
  /\ heap = <<>>
  /\ host = <<>>
  /\ handles = <<>>
  /\ todo = <<>>
  /\ hostLog = <<>>
  /\ checkRcs = {}
  /\ options = <<>>
  /\ table = <<>>
  /\ reads = <<>>
  /\ nested = <<>>

Init ==
  /\ Start
  /\ limit = [regs |-> MaxBoxes, invocations |-> MaxInvocations]

(* The Resource Handles that own a Context Box (command hooks, fd hooks,   *)
(* configs) and the host events they can lead to.                          *)
Next ==
  \/ \E d \in DataArgs, accept \in BOOLEAN : hook_command(d, accept)
  \/ \E f \in FdObjects, m \in FdHookModes, d \in DataArgs, accept \in BOOLEAN : hook_fd(f, m, d, accept)
  \/ \E cb \in BOOLEAN, d \in DataArgs, accept \in BOOLEAN : config_new(cb, d, accept)
  \/ \E a \in DOMAIN handles : DropCommandHook(a)
  \/ \E a \in DOMAIN handles : DropFdHook(a)
  \/ \E a \in DOMAIN handles : DropConfig(a)
  \/ HostFreeCall
  \/ BoxFree
  \/ \E h \in 1..Len(host) : HostRunCommand(h)
  \/ \E h \in 1..Len(host), fd \in Fds : HostFdEvent(h, fd)
  \/ \E h \in 1..Len(host) : HostReload(h)

Spec == Init /\ [][Next]_vars

(* The hooks alone, with room for three invocations of one hook. *)
InitHooks ==
  /\ Start
  /\ limit = [regs |-> HookBoxes, invocations |-> HookInvocations]

NextHooks ==
  \/ \E d \in DataArgs, accept \in BOOLEAN : hook_command(d, accept)
  \/ \E f \in FdObjects, m \in FdHookModes, d \in DataArgs, accept \in BOOLEAN : hook_fd(f, m, d, accept)
  \/ \E a \in DOMAIN handles : DropCommandHook(a)
  \/ \E a \in DOMAIN handles : DropFdHook(a)
  \/ HostFreeCall
  \/ BoxFree
  \/ \E h \in 1..Len(host) : HostRunCommand(h)
  \/ \E h \in 1..Len(host), fd \in Fds : HostFdEvent(h, fd)

SpecHooks == InitHooks /\ [][NextHooks]_vars

(* The config subsystem as its callers see it: configs, sections, the four *)
(* typed option constructors, and the destructors. No host events.         *)
InitConfig ==
  /\ Start
  /\ limit = [regs |-> ConfigRegs, invocations |-> 0]

NextConfig ==
  \/ \E cb \in BOOLEAN, d \in DataArgs, accept \in BOOLEAN : config_new(cb, d, accept)
  \/ \E a \in DOMAIN handles, n \in SectionNames, accept \in BOOLEAN : new_section(a, ConfigSectionInfo(n, {}), accept)
  \/ \E a \in DOMAIN handles, cb \in BOOLEAN, accept \in BOOLEAN : new_string_option(a, cb, accept)
  \/ \E a \in DOMAIN handles, cb \in BOOLEAN, accept \in BOOLEAN : new_boolean_option(a, FALSE, TRUE, cb, accept)
  \/ \E a \in DOMAIN handles, cb \in BOOLEAN, accept \in BOOLEAN : new_integer_option(a, cb, accept)
  \/ \E a \in DOMAIN handles, cb \in BOOLEAN, accept \in BOOLEAN : new_color_option(a, cb, accept)
  \/ \E a \in DOMAIN handles : DropConfig(a)
  \/ HostFreeCall
  \/ BoxFree

SpecConfig == InitConfig /\ [][NextConfig]_vars

(* The callback bridge of configs and options: new_option called on all of *)
(* its parameters (every combination of present and absent check, change   *)
(* and delete callbacks), and the host events that reach the trampolines.  *)
InitNewOption ==
  /\ Start
  /\ limit = [regs |-> BridgeRegs, invocations |-> BridgeInvocations]

NextNewOption ==
  /\ ~Crashed
  /\ \/ \E cb \in BOOLEAN, d \in DataArgs, accept \in BOOLEAN : config_new(cb, d, accept)
     \/ \E a \in DOMAIN handles, n \in SectionNames, accept \in BOOLEAN : new_section(a, ConfigSectionInfo(n, {}), accept)
     \/ \E a \in DOMAIN handles, t \in OptionTypes, cbs \in BOOLEAN \X BOOLEAN \X BOOLEAN, accept \in BOOLEAN : 
          /\ new_option(a, t, OptionText, OptionText, cbs[1], cbs[2], cbs[3], accept)
          /\ UNCHANGED options
     \/ \E a \in DOMAIN handles : DropConfig(a)
     \/ HostFreeCall
     \/ BoxFree
     \/ \E h \in 1..Len(host) : HostReload(h)
     \/ \E h \in 1..Len(host), v \in OptionValues : HostOptionCheck(h, v)
     \/ \E h \in 1..Len(host) : HostOptionChange(h)
     \/ \E h \in 1..Len(host) : HostOptionDelete(h)
     \/ OptionOutOfScope

SpecNewOption == InitNewOption /\ [][NextNewOption]_vars

(* The trampolines applied to any Context Box of their type: the box with  *)
(* or without each callback, each state slot with any count, and the       *)
(* trampolines installed for every slot.                                   *)
TrampolineBoxes ==
  {[kind |-> "CommandHookData", alloc |-> TRUE, frees |-> 0, callback |-> TRUE,
    callback_data |-> n] : n \in 0..MaxCount}
  \cup {[kind |-> "FdHookData", alloc |-> TRUE, frees |-> 0, callback |-> TRUE,
         callback_data |-> n, fd_object |-> f] : n \in 0..MaxCount, f \in FdObjects}
  \cup {[kind |-> "ConfigPointers", alloc |-> TRUE, frees |-> 0,
         reload_cb |-> cb, reload_data |-> n] : cb \in BOOLEAN, n \in 0..MaxCount}
  \cup {[kind |-> "OptionPointers", alloc |-> TRUE, frees |-> 0,
         check_cb |-> cbs[1], check_cb_data |-> ns[1],
         change_cb |-> cbs[2], change_cb_data |-> ns[2],
         delete_cb |-> cbs[3], delete_cb_data |-> ns[3]] :
          cbs \in BOOLEAN \X BOOLEAN \X BOOLEAN,
          ns \in (0..MaxCount) \X (0..MaxCount) \X (0..MaxCount)}

TrampolinesOf(box) ==
  CASE box.kind = "CommandHookData" ->
         [kind |-> "hook_command", callbacks |-> <<"c_hook_cb">>, pointers |-> <<1>>]
    [] box.kind = "FdHookData" ->
         [kind |-> "hook_fd", callbacks |-> <<"c_hook_cb">>, pointers |-> <<1>>]
    [] box.kind = "ConfigPointers" ->
         [kind |-> "config", callbacks |-> <<"c_reload_cb">>, pointers |-> <<1>>]
    [] box.kind = "OptionPointers" ->
         [kind |-> "option", callbacks |-> <<"c_check_cb", "c_change_cb", "c_delete_cb">>,
          pointers |-> <<1, 1, 1>>]

InitTrampoline ==
  /\ \E box \in TrampolineBoxes :
       /\ heap = <<box>>
       /\ host = <<[kind |-> TrampolinesOf(box).kind, live |-> TRUE, parent |-> NULL,
                    callbacks |-> TrampolinesOf(box).callbacks,
                    pointers |-> TrampolinesOf(box).pointers,
                    invoked |-> 0, rc |-> "none", seen |-> {}]>>
  /\ handles = <<>>
  /\ todo = <<>>
  /\ hostLog = << <<>> >>
  /\ checkRcs = {}
  /\ options = <<>>
  /\ table = <<>>
  /\ reads = <<>>
  /\ nested = <<>>
  /\ limit = [regs |-> 0, invocations |-> TrampolineInvocations]

NextTrampoline ==
  /\ ~Crashed
  /\ \/ \E h \in 1..Len(host) : HostRunCommand(h)
     \/ \E h \in 1..Len(host), fd \in Fds : HostFdEvent(h, fd)
     \/ \E h \in 1..Len(host) : HostReload(h)
     \/ \E h \in 1..Len(host), v \in OptionValues : HostOptionCheck(h, v)
     \/ \E h \in 1..Len(host) : HostOptionChange(h)
     \/ \E h \in 1..Len(host) : HostOptionDelete(h)
     \/ OptionOutOfScope

SpecTrampoline == InitTrampoline /\ [][NextTrampoline]_vars

(* Typed reads of one hdata table: any declared tag and getter result for  *)
(* its field, any result type, the field or a name the table does not have. *)
InitHData ==
  /\ heap = <<>>
  /\ host = <<>>
  /\ handles = <<>>
  /\ todo = <<>>
  /\ hostLog = <<>>
  /\ checkRcs = {}
  /\ options = <<>>
  /\ table \in [HFields -> [type : HDataTags, raw : RawValues]]
  /\ reads = <<>>
  /\ nested = <<>>
  /\ limit = [regs |-> 0, invocations |-> 0]

NextHData ==
  \/ \E T \in HDataTypes, name \in HNames : get_var(T, name)
  \/ \E name \in TableNames : get_hdata(name)

SpecHData == InitHData /\ [][NextHData]_vars

(* Options made with the typed constructors, the wrappers they return and  *)
(* the change notifications of the host.                                   *)
InitOptions ==
  /\ Start
  /\ limit = [regs |-> OptionRegs, invocations |-> OptionInvocations]

NextOptions ==
  \/ config_new(FALSE, None, TRUE)
  \/ \E a \in DOMAIN handles, n \in SectionNames : new_section(a, ConfigSectionInfo(n, {}), TRUE)
  \/ \E a \in DOMAIN handles, cb \in BOOLEAN : new_string_option(a, cb, TRUE)
  \/ \E a \in DOMAIN handles, d \in BOOLEAN, v \in BOOLEAN, accept \in BOOLEAN :
       new_boolean_option(a, d, v, TRUE, accept)
  \/ \E h \in 1..Len(host) : HostOptionChange(h)
  \/ OptionOutOfScope
  \/ \E i \in 1..Len(options) : DropOption(i)
  \/ \E a \in DOMAIN handles : DropConfig(a)
  \/ HostFreeCall
  \/ BoxFree

SpecOptions == InitOptions /\ [][NextOptions]_vars

(* Every registration call of the layer, accepted or refused by the host,  *)
(* with each callback present or absent; a section registered under a     *)
(* name in use replaces the old one, which is dropped.                     *)
InitRegistrations ==
  /\ Start
  /\ limit = [regs |-> RegistrationRegs, invocations |-> 0]

NextRegistrations ==
  \/ \E d \in DataArgs, accept \in BOOLEAN : hook_command(d, accept)
  \/ \E f \in FdObjects, m \in FdHookModes, accept \in BOOLEAN : hook_fd(f, m, None, accept)
  \/ \E cb \in BOOLEAN, accept \in BOOLEAN : config_new(cb, None, accept)
  \/ \E a \in DOMAIN handles, n \in SectionNames, accept \in BOOLEAN : new_section(a, ConfigSectionInfo(n, {}), accept)
  \/ \E a \in DOMAIN handles, cbs \in BOOLEAN \X BOOLEAN \X BOOLEAN, accept \in BOOLEAN :
       /\ new_option(a, "string", OptionText, OptionText, cbs[1], cbs[2], cbs[3], accept)
       /\ UNCHANGED options
  \/ HostFreeCall

SpecRegistrations == InitRegistrations /\ [][NextRegistrations]_vars

(* new_section called with every ConfigSectionInfo: each of its five       *)
(* callbacks set or not.                                                   *)
InitSections ==
  /\ Start
  /\ limit = [regs |-> SectionRegs, invocations |-> 0]

NextSections ==
  \/ \E cb \in BOOLEAN : config_new(cb, None, TRUE)
  \/ \E a \in DOMAIN handles, n \in SectionNames, cbs \in SUBSET SectionCallbackSet,
        accept \in BOOLEAN :
       new_section(a, ConfigSectionInfo(n, cbs), accept)
  \/ \E a \in DOMAIN handles : DropConfig(a)
  \/ HostFreeCall
  \/ BoxFree

SpecSections == InitSections /\ [][NextSections]_vars

====
